---- MODULE Spec2Model ----
(***************************************************************************)
(* Model of Source/cmXCodeObject.cxx: the identity generator (sequence     *)
(* counter, id cache, mutex), the constructor, and the serializer (Print,  *)
(* PrintAttribute, PrintString).                                           *)
(*                                                                         *)
(* A std::string is a sequence of one-character strings, so that length,   *)
(* erase, substr, find and concatenation are the sequence operations.      *)
(***************************************************************************)
EXTENDS Integers, Sequences, FiniteSets, TLC

VARIABLES
  sequenceIndex,   \* static size_t sequenceIndex
  objectIdCache,   \* static std::map<std::string, std::string> objectIdCache
  digest,          \* CC_SHA256 restricted to the keys used: key -> first 12 bytes
  nodes,           \* the nodes constructed since the last resetIdSequence, in order
  prevNodes,       \* the nodes constructed between the two previous resets
  mutex,           \* static std::mutex objectIdCacheMutex: its owner, or NoThread
  pc,              \* per thread: position inside the constructor / resetIdSequence
  frame,           \* per thread: arguments and locals of the running call
  issued,          \* per thread: the nodes it has finished constructing
  resets,          \* number of completed resetIdSequence calls
  input,           \* the arguments of the serializer call under test
  out,             \* the characters written to the std::ostream
  phase            \* which serializer entry point has run

vars == << sequenceIndex, objectIdCache, digest, nodes, prevNodes,
           mutex, pc, frame, issued, resets, input, out, phase >>

idVars    == << sequenceIndex, objectIdCache, digest >>
passVars  == << nodes, prevNodes >>
concVars  == << mutex, pc, frame, issued, resets >>
printVars == << input, out, phase >>

----------------------------------------------------------------------------
(* Bounds of the model *)

MaxNodes == 4      \* nodes kept in the current and the previous pass together
MaxOps == 2        \* calls each thread makes
MaxStrLen == 3     \* length of the strings given to PrintString
MaxLevel == 3      \* indentation level given to PrintAttribute
MaxList == 2       \* elements of an ObjectList given to the serializer

----------------------------------------------------------------------------
(* std::string helpers *)

Tab == "\t"
NL == "\n"
Quote == "\""
Backslash == "\\"

RECURSIVE Repeat(_, _)
Repeat(c, n) == IF n <= 0 THEN << >> ELSE << c >> \o Repeat(c, n - 1)

\* s.substr(0, n)
Substr0(s, n) == SubSeq(s, 1, IF Len(s) < n THEN Len(s) ELSE n)

\* s.erase(s.begin() + pos): the iterator overload removes ONE character
EraseAt(s, pos) == SubSeq(s, 1, pos) \o SubSeq(s, pos + 2, Len(s))

\* the number of occurrences of character c in s
Count(s, c) == Cardinality({i \in 1..Len(s) : s[i] = c})

\* s.find(<<a, b>>) != npos
Contains2(s, a, b) == \E i \in 1..(Len(s) - 1) : s[i] = a /\ s[i + 1] = b

\* cmSystemTools::ReplaceString(s, "-", "")
ReplaceString(s) == SelectSeq(s, LAMBDA c : c # "-")

DecDigits == << "0", "1", "2", "3", "4", "5", "6", "7", "8", "9" >>
HexDigits == << "0", "1", "2", "3", "4", "5", "6", "7", "8", "9",
                "a", "b", "c", "d", "e", "f" >>

\* std::to_string(size_t)
RECURSIVE to_string(_)
to_string(n) ==
  IF n < 10 THEN << DecDigits[n + 1] >>
  ELSE to_string(n \div 10) \o << DecDigits[(n % 10) + 1] >>

\* idStream << setw(2) << setfill('0') << hex << (int)byte, for 12 bytes
RECURSIVE HexOf(_)
HexOf(bytes) ==
  IF bytes = << >> THEN << >>
  ELSE << HexDigits[(Head(bytes) \div 16) + 1], HexDigits[(Head(bytes) % 16) + 1] >>
       \o HexOf(Tail(bytes))

----------------------------------------------------------------------------
(* Value model *)

OBJECT == "OBJECT"
OBJECT_LIST == "OBJECT_LIST"
STRING_T == "STRING"   \* the kind STRING (a reserved word here)
ATTRIBUTE_GROUP == "ATTRIBUTE_GROUP"
OBJECT_REF == "OBJECT_REF"

PBXGroup == "PBXGroup"
PBXProject == "PBXProject"
PBXFileReference == "PBXFileReference"
PBXBuildFile == "PBXBuildFile"

\* PBXTypeNames[ptype] as characters
PBXTypeNames(ptype) ==
  CASE ptype = PBXGroup -> << "P", "B", "X", "G", "r", "o", "u", "p" >>
    [] ptype = PBXProject -> << "P", "B", "X", "P", "r", "o", "j", "e", "c", "t" >>
    [] ptype = PBXFileReference ->
         << "P", "B", "X", "F", "i", "l", "e", "R", "e", "f", "e", "r", "e", "n", "c", "e" >>
    [] ptype = PBXBuildFile ->
         << "P", "B", "X", "B", "u", "i", "l", "d", "F", "i", "l", "e" >>

TemporaryId ==
  << "T", "e", "m", "p", "o", "r", "a", "r", "y", " ", "c", "m",
     "a", "k", "e", " ", "o", "b", "j", "e", "c", "t", ",", " ",
     "s", "h", "o", "u", "l", "d", " ", "n", "o", "t", " ", "b",
     "e", " ", "r", "e", "f", "e", "r", "r", "e", "d", " ", "t",
     "o", " ", "i", "n", " ", "X", "c", "o", "d", "e", " ", "f",
     "i", "l", "e" >>

----------------------------------------------------------------------------
(* Identity generator *)

SeqPrefix == << "0", "1" >>
HashPrefix == << "0", "2" >>

\* the inputs the constructor is called with
EmptyKey == << >>
KeyA == << "t", "-", "a" >>
KeyB == << "g", "b" >>
Keys == { KeyA, KeyB }
HashingKeys == { EmptyKey } \cup Keys
PTypes == { PBXGroup, PBXFileReference }
Types == { OBJECT, STRING_T }

\* the digests CC_SHA256 may give a key (first 12 bytes)
DigestSamples ==
  { << 0, 10, 255, 16, 1, 171, 205, 239, 18, 52, 86, 120 >>,
    << 222, 173, 190, 239, 0, 0, 9, 153, 128, 127, 45, 100 >> }

\* prefix + "-" + hashingKey
LookupKey(hashingKey, prefix) == prefix \o << "-" >> \o hashingKey

\* the else branch of cmGetUniqueXcodeId: the id computed on a cache miss
FreshXcodeId(dg, prefix) ==
  LET xcodeId == prefix \o HexOf(dg)
  IN IF Len(xcodeId) > 24 THEN EraseAt(xcodeId, 24) ELSE xcodeId

\* mutant: a cache hit returns the map entry's key instead of its value
cmGetUniqueXcodeId_first(cache, dg, hashingKey, prefix) ==
  LET lookupKey == LookupKey(hashingKey, prefix)
  IN IF lookupKey \in DOMAIN cache
     THEN [ret |-> lookupKey, cache |-> cache]
     ELSE LET xcodeId == FreshXcodeId(dg[hashingKey], prefix)
          IN [ret |-> xcodeId, cache |-> (lookupKey :> xcodeId) @@ cache]

\* cmGetUniqueXcodeId: the value returned and the cache afterwards
cmGetUniqueXcodeId(cache, dg, hashingKey, prefix) ==
  LET lookupKey == LookupKey(hashingKey, prefix)
  IN IF lookupKey \in DOMAIN cache
     THEN [ret |-> cache[lookupKey], cache |-> cache]
     ELSE LET xcodeId == FreshXcodeId(dg[hashingKey], prefix)
          IN [ret |-> xcodeId, cache |-> (lookupKey :> xcodeId) @@ cache]

\* mutant: the sequential id carries the content-derived tag
SequentialId_tag02(index) ==
  HashPrefix \o Repeat("0", 22 - Len(to_string(index))) \o to_string(index)

\* "01" + to_string(sequenceIndex) left-padded with '0' to 22 characters
SequentialId(index) ==
  SeqPrefix \o Repeat("0", 22 - Len(to_string(index))) \o to_string(index)

\* mutant: the separators are stripped but the id is not cut to 24
NormalizeId_nocut(id) == ReplaceString(id)

\* ReplaceString(Id, "-", ""), then substr(0, 24) when longer than 24
NormalizeId(id) ==
  LET stripped == ReplaceString(id)
  IN IF Len(stripped) > 24 THEN Substr0(stripped, 24) ELSE stripped

\* the node the constructor leaves behind (hashingKey kept to tell what was asked)
Node(ptype, type, hashingKey, id) ==
  [IsA |-> ptype, TypeValue |-> type, Id |-> NormalizeId(id),
   Version |-> 15, hashingKey |-> hashingKey]

----------------------------------------------------------------------------
(* Single-threaded use: whole calls, one after the other *)

NoThread == 0
Threads == { 1, 2 }   \* two threads: the least number that can race

IdleConc ==
  /\ mutex = NoThread
  /\ pc = [t \in Threads |-> "idle"]
  /\ frame = [t \in Threads |-> << >>]
  /\ issued = [t \in Threads |-> << >>]
  /\ resets = 0

IdlePrint ==
  /\ input = << >>
  /\ out = << >>
  /\ phase = "none"

InitId ==
  /\ sequenceIndex = 0
  /\ objectIdCache = << >>
  /\ digest \in [Keys -> DigestSamples]
  /\ nodes = << >>
  /\ prevNodes = << >>
  /\ IdleConc
  /\ IdlePrint

\* cmXCodeObject(ptype, type, hashingKey), keyless Object
ConstructSequential(ptype) ==
  /\ Len(nodes) + Len(prevNodes) < MaxNodes
  /\ sequenceIndex' = sequenceIndex + 1
  /\ nodes' = Append(nodes, Node(ptype, OBJECT, EmptyKey, SequentialId(sequenceIndex')))
  /\ UNCHANGED << objectIdCache, digest, prevNodes, concVars, printVars >>

\* cmXCodeObject(ptype, type, hashingKey), Object with a derivation key
ConstructHashed(ptype, hashingKey) ==
  /\ Len(nodes) + Len(prevNodes) < MaxNodes
  /\ Len(hashingKey) # 0
  /\ LET r == cmGetUniqueXcodeId(objectIdCache, digest, hashingKey, HashPrefix)
     IN /\ objectIdCache' = r.cache
        /\ nodes' = Append(nodes, Node(ptype, OBJECT, hashingKey, r.ret))
  /\ UNCHANGED << sequenceIndex, digest, prevNodes, concVars, printVars >>

\* cmXCodeObject(ptype, type, hashingKey), any kind but Object
ConstructTemporary(ptype, type, hashingKey) ==
  /\ Len(nodes) + Len(prevNodes) < MaxNodes
  /\ type # OBJECT
  /\ nodes' = Append(nodes, Node(ptype, type, hashingKey, TemporaryId))
  /\ UNCHANGED << idVars, prevNodes, concVars, printVars >>

\* mutant: the reset leaves the counter where it is
resetIdSequence_keep ==
  /\ sequenceIndex' = sequenceIndex
  /\ prevNodes' = nodes
  /\ nodes' = << >>
  /\ UNCHANGED << objectIdCache, digest, concVars, printVars >>

\* cmXCodeObject::resetIdSequence(); the pass just finished becomes the previous one
resetIdSequence ==
  /\ sequenceIndex' = 0
  /\ prevNodes' = nodes
  /\ nodes' = << >>
  /\ UNCHANGED << objectIdCache, digest, concVars, printVars >>

NextId ==
  \/ \E ptype \in PTypes : ConstructSequential(ptype)
  \/ \E ptype \in PTypes, k \in Keys : ConstructHashed(ptype, k)
  \/ \E ptype \in PTypes, type \in Types \ { OBJECT } :
       ConstructTemporary(ptype, type, EmptyKey)
  \/ resetIdSequence

Spec == InitId /\ [][NextId]_vars

----------------------------------------------------------------------------
(* Properties of the identity generator, single-threaded *)

Range(q) == { q[i] : i \in 1..Len(q) }
AllNodes == Range(nodes) \cup Range(prevNodes)
ObjectNodes == { n \in AllNodes : n.TypeValue = OBJECT }
Keyless(n) == n.TypeValue = OBJECT /\ n.hashingKey = EmptyKey
Keyed(n) == n.TypeValue = OBJECT /\ n.hashingKey # EmptyKey

\* the rank of an id character in ASCII order, for the characters ids are made of
Rank(c) == CHOOSE i \in 1..Len(HexDigits) : HexDigits[i] = c

\* a < b as std::string compares them (both made of id characters)
RECURSIVE StrLess(_, _)
StrLess(a, b) ==
  IF b = << >> THEN FALSE
  ELSE IF a = << >> THEN TRUE
  ELSE IF Head(a) = Head(b) THEN StrLess(Tail(a), Tail(b))
  ELSE Rank(Head(a)) < Rank(Head(b))

\* C1: every Object node constructed with the same non-empty key has the same
\* 24-character Id, within a pass and across a resetIdSequence.
C1_SameKeySameId ==
  \A a \in ObjectNodes, b \in ObjectNodes :
    (Keyed(a) /\ a.hashingKey = b.hashingKey) => (a.Id = b.Id /\ Len(a.Id) = 24)

C1_Witness ==
  /\ \E i \in 1..Len(prevNodes) : Keyed(prevNodes[i]) /\ prevNodes[i].hashingKey = KeyA
  /\ \E i \in 1..Len(nodes), j \in 1..Len(nodes) :
       /\ i < j
       /\ Keyed(nodes[i]) /\ nodes[i].hashingKey = KeyA
       /\ Keyed(nodes[j]) /\ nodes[j].hashingKey = KeyA

\* C2: the Id of every Object node, sequential or content-derived, is exactly
\* 24 characters long and holds no '-'.
C2_IdShape ==
  \A n \in ObjectNodes : Len(n.Id) = 24 /\ Count(n.Id, "-") = 0

C2_Witness ==
  /\ \E n \in ObjectNodes : Keyless(n)
  /\ \E n \in ObjectNodes : Keyed(n) /\ n.hashingKey = KeyA

SameCall(a, b) ==
  a.IsA = b.IsA /\ a.TypeValue = b.TypeValue /\ a.hashingKey = b.hashingKey

\* C3: within a pass the keyless Ids increase strictly in issuance order, and
\* a pass that repeats the calls of the previous pass (the two separated by a
\* reset) is issued the same Ids, call by call.
C3_SequenceAndReplay ==
  /\ \A i \in 1..Len(nodes), j \in 1..Len(nodes) :
       (i < j /\ Keyless(nodes[i]) /\ Keyless(nodes[j]))
         => StrLess(nodes[i].Id, nodes[j].Id)
  /\ \A i \in 1..Len(nodes) :
       (i <= Len(prevNodes) /\ \A j \in 1..i : SameCall(nodes[j], prevNodes[j]))
         => nodes[i].Id = prevNodes[i].Id

C3_Witness ==
  /\ Len(prevNodes) = 1 /\ Len(nodes) = 3
  /\ Keyless(prevNodes[1]) /\ SameCall(nodes[1], prevNodes[1])
  /\ Keyed(nodes[2])
  /\ Keyless(nodes[3])

\* C9: every value in the id cache is exactly 24 characters long and is the Id
\* issued to the Object nodes constructed with that key.
C9_CacheHolds24 ==
  \A lk \in DOMAIN objectIdCache :
    /\ Len(objectIdCache[lk]) = 24
    /\ \A n \in ObjectNodes :
         (Keyed(n) /\ LookupKey(n.hashingKey, HashPrefix) = lk)
           => n.Id = objectIdCache[lk]

\* C10: a keyless Object's Id begins with "01", a keyed Object's Id begins
\* with "02", and no keyless Id equals a keyed Id.
C10_TagsDisjoint ==
  /\ \A n \in ObjectNodes : Keyless(n) => SubSeq(n.Id, 1, 2) = << "0", "1" >>
  /\ \A n \in ObjectNodes : Keyed(n) => SubSeq(n.Id, 1, 2) = << "0", "2" >>
  /\ \A a \in ObjectNodes, b \in ObjectNodes :
       (Keyless(a) /\ Keyed(b)) => a.Id # b.Id

C10_Witness ==
  /\ \E n \in Range(nodes) : Keyless(n)
  /\ \E n \in Range(nodes) : Keyed(n) /\ n.hashingKey = KeyA
  /\ prevNodes # << >>

----------------------------------------------------------------------------
(* Concurrent use: threads run the constructor and resetIdSequence one      *)
(* shared-memory access at a time; lock_guard acquires at its declaration   *)
(* and releases at the end of its block.                                    *)

IdleFrame == [calls |-> 0]

InitConc ==
  /\ sequenceIndex = 0
  /\ objectIdCache = << >>
  /\ digest \in [Keys -> DigestSamples]
  /\ nodes = << >>
  /\ prevNodes = << >>
  /\ mutex = NoThread
  /\ pc = [t \in Threads |-> "idle"]
  /\ frame = [t \in Threads |-> IdleFrame]
  /\ issued = [t \in Threads |-> << >>]
  /\ resets = 0
  /\ IdlePrint

Goto(t, label) == pc' = [pc EXCEPT ![t] = label]

\* constructor entry: Version, Target, Object, IsA set; branch on type == OBJECT
CtorEnter(t, ptype, type, hashingKey) ==
  /\ pc[t] = "idle"
  /\ frame[t].calls < MaxOps
  /\ frame' = [frame EXCEPT ![t] =
       [calls |-> frame[t].calls, ptype |-> ptype, type |-> type,
        hashingKey |-> hashingKey, epoch |-> resets,
        id |-> IF type = OBJECT THEN << >> ELSE TemporaryId]]
  /\ Goto(t, IF type = OBJECT THEN "ctor_lock" ELSE "ctor_finish")
  /\ UNCHANGED << idVars, passVars, mutex, issued, resets, printVars >>

\* mutant: the guard is taken without waiting for the owner to release
CtorLock_nowait(t) ==
  /\ pc[t] = "ctor_lock"
  /\ mutex' = t
  /\ Goto(t, IF Len(frame[t].hashingKey) = 0 THEN "incr_load" ELSE "cache_find")
  /\ UNCHANGED << idVars, passVars, frame, issued, resets, printVars >>

\* std::lock_guard<std::mutex> guard(objectIdCacheMutex) in the constructor
CtorLock(t) ==
  /\ pc[t] = "ctor_lock"
  /\ mutex = NoThread
  /\ mutex' = t
  /\ Goto(t, IF Len(frame[t].hashingKey) = 0 THEN "incr_load" ELSE "cache_find")
  /\ UNCHANGED << idVars, passVars, frame, issued, resets, printVars >>

\* sequenceIndex += 1, the load
IncrLoad(t) ==
  /\ pc[t] = "incr_load"
  /\ frame' = [frame EXCEPT ![t] = [@ EXCEPT !.id = << sequenceIndex >>]]
  /\ Goto(t, "incr_store")
  /\ UNCHANGED << idVars, passVars, mutex, issued, resets, printVars >>

\* sequenceIndex += 1, the store
IncrStore(t) ==
  /\ pc[t] = "incr_store"
  /\ sequenceIndex' = frame[t].id[1] + 1
  /\ frame' = [frame EXCEPT ![t] = [@ EXCEPT !.epoch = resets]]
  /\ Goto(t, "seq_format")
  /\ UNCHANGED << objectIdCache, digest, passVars, mutex, issued, resets, printVars >>

\* id = to_string(sequenceIndex), padded; this->Id = "01" + id
SeqFormat(t) ==
  /\ pc[t] = "seq_format"
  /\ frame' = [frame EXCEPT ![t] = [@ EXCEPT !.id = SequentialId(sequenceIndex)]]
  /\ Goto(t, "ctor_unlock")
  /\ UNCHANGED << idVars, passVars, mutex, issued, resets, printVars >>

\* cmGetUniqueXcodeId: objectIdCache.find(lookupKey); a hit returns it->second
CacheFind(t) ==
  /\ pc[t] = "cache_find"
  /\ LET lookupKey == LookupKey(frame[t].hashingKey, HashPrefix)
     IN IF lookupKey \in DOMAIN objectIdCache
        THEN /\ frame' = [frame EXCEPT ![t] = [@ EXCEPT !.id = objectIdCache[lookupKey]]]
             /\ Goto(t, "ctor_unlock")
        ELSE /\ frame' = [frame EXCEPT ![t] =
                  [@ EXCEPT !.id = FreshXcodeId(digest[frame[t].hashingKey], HashPrefix)]]
             /\ Goto(t, "cache_insert")
  /\ UNCHANGED << idVars, passVars, mutex, issued, resets, printVars >>

\* cmGetUniqueXcodeId: return objectIdCache[lookupKey] = xcodeId
CacheInsert(t) ==
  /\ pc[t] = "cache_insert"
  /\ objectIdCache' =
       (LookupKey(frame[t].hashingKey, HashPrefix) :> frame[t].id) @@ objectIdCache
  /\ Goto(t, "ctor_unlock")
  /\ UNCHANGED << sequenceIndex, digest, passVars, mutex, frame, issued, resets, printVars >>

\* end of the if (type == OBJECT) block: the guard is destroyed
CtorUnlock(t) ==
  /\ pc[t] = "ctor_unlock"
  /\ mutex' = IF mutex = t THEN NoThread ELSE mutex
  /\ Goto(t, "ctor_finish")
  /\ UNCHANGED << idVars, passVars, frame, issued, resets, printVars >>

\* ReplaceString, truncation, TypeValue, AddAttribute("isa"): the node is complete
CtorFinish(t) ==
  /\ pc[t] = "ctor_finish"
  /\ issued' = [issued EXCEPT ![t] =
       Append(@, [node |-> Node(frame[t].ptype, frame[t].type,
                                frame[t].hashingKey, frame[t].id),
                  epoch |-> frame[t].epoch])]
  /\ frame' = [frame EXCEPT ![t] = [calls |-> frame[t].calls + 1]]
  /\ Goto(t, "idle")
  /\ UNCHANGED << idVars, passVars, mutex, resets, printVars >>

\* resetIdSequence entry
ResetEnter(t) ==
  /\ pc[t] = "idle"
  /\ frame[t].calls < MaxOps
  /\ Goto(t, "reset_lock")
  /\ UNCHANGED << idVars, passVars, mutex, frame, issued, resets, printVars >>

\* std::lock_guard<std::mutex> guard(objectIdCacheMutex) in resetIdSequence
ResetLock(t) ==
  /\ pc[t] = "reset_lock"
  /\ mutex = NoThread
  /\ mutex' = t
  /\ Goto(t, "reset_store")
  /\ UNCHANGED << idVars, passVars, frame, issued, resets, printVars >>

\* sequenceIndex = 0
ResetStore(t) ==
  /\ pc[t] = "reset_store"
  /\ sequenceIndex' = 0
  /\ resets' = resets + 1
  /\ Goto(t, "reset_unlock")
  /\ UNCHANGED << objectIdCache, digest, passVars, mutex, frame, issued, printVars >>

\* resetIdSequence returns: the guard is destroyed
ResetUnlock(t) ==
  /\ pc[t] = "reset_unlock"
  /\ mutex' = IF mutex = t THEN NoThread ELSE mutex
  /\ frame' = [frame EXCEPT ![t] = [calls |-> frame[t].calls + 1]]
  /\ Goto(t, "idle")
  /\ UNCHANGED << idVars, passVars, issued, resets, printVars >>

NextConc ==
  \E t \in Threads :
    \/ \E type \in Types, k \in { EmptyKey, KeyA } :
         CtorEnter(t, PBXGroup, type, k)
    \/ CtorLock(t)
    \/ IncrLoad(t)
    \/ IncrStore(t)
    \/ SeqFormat(t)
    \/ CacheFind(t)
    \/ CacheInsert(t)
    \/ CtorUnlock(t)
    \/ CtorFinish(t)
    \/ ResetEnter(t)
    \/ ResetLock(t)
    \/ ResetStore(t)
    \/ ResetUnlock(t)

SpecConc == InitConc /\ [][NextConc]_vars

----------------------------------------------------------------------------
(* Properties of the concurrent use *)

\* the positions at which a thread is about to read or write sequenceIndex or
\* objectIdCache, or still holds the guard
CriticalPcs ==
  { "incr_load", "incr_store", "seq_format", "cache_find", "cache_insert",
    "ctor_unlock", "reset_store", "reset_unlock" }

\* the finished nodes of all threads, each with the thread and position that made it
Finished ==
  UNION { { [thread |-> t, at |-> i, node |-> issued[t][i].node,
             epoch |-> issued[t][i].epoch] : i \in 1..Len(issued[t]) } : t \in Threads }

\* C4: every access to the counter and the cache is made by the thread that
\* holds objectIdCacheMutex, at most one thread is in a critical section, no
\* increment is lost (keyless Objects made with no reset in between have
\* pairwise distinct Ids), and requests for one key all get one Id.
C4_MutexGuardsSharedState ==
  /\ \A t \in Threads : pc[t] \in CriticalPcs => mutex = t
  /\ Cardinality({ t \in Threads : pc[t] \in CriticalPcs }) <= 1
  /\ \A a \in Finished, b \in Finished :
       (Keyless(a.node) /\ Keyless(b.node) /\ a.epoch = b.epoch
          /\ << a.thread, a.at >> # << b.thread, b.at >>)
         => a.node.Id # b.node.Id
  /\ \A a \in Finished, b \in Finished :
       (Keyed(a.node) /\ a.node.hashingKey = b.node.hashingKey /\ Keyed(b.node))
         => a.node.Id = b.node.Id

\* one thread waits for the mutex while the other is inside its critical
\* section, after both have already been issued keyless Ids in the same epoch
C4_Witness ==
  /\ pc[1] = "ctor_lock" /\ pc[2] = "incr_store" /\ mutex = 2
  /\ \E a \in Finished, b \in Finished :
       /\ a.thread = 1 /\ b.thread = 2
       /\ Keyless(a.node) /\ Keyless(b.node) /\ a.epoch = b.epoch

----------------------------------------------------------------------------
(* Serializer *)

\* cmXCodeObject::Indent(level, out)
Indent(level) == Repeat(Tab, level)

\* the characters PrintString leaves unquoted
UnquotedChars ==
  { "A", "B", "C", "D", "E", "F", "G", "H", "I", "J", "K", "L", "M",
    "N", "O", "P", "Q", "R", "S", "T", "U", "V", "W", "X", "Y", "Z",
    "a", "b", "c", "d", "e", "f", "g", "h", "i", "j", "k", "l", "m",
    "n", "o", "p", "q", "r", "s", "t", "u", "v", "w", "x", "y", "z",
    "0", "1", "2", "3", "4", "5", "6", "7", "8", "9",
    "$", "_", ".", "/" }

\* the loop of PrintString: a backslash before each '"' and each '\'
RECURSIVE EscapeAll(_)
EscapeAll(str) ==
  IF str = << >> THEN << >>
  ELSE (IF Head(str) = Quote \/ Head(str) = Backslash
        THEN << Backslash, Head(str) >> ELSE << Head(str) >>)
       \o EscapeAll(Tail(str))

\* mutant: only the double quote is escaped
RECURSIVE EscapeQuoteOnly(_)
EscapeQuoteOnly(str) ==
  IF str = << >> THEN << >>
  ELSE (IF Head(str) = Quote
        THEN << Backslash, Head(str) >> ELSE << Head(str) >>)
       \o EscapeQuoteOnly(Tail(str))

PrintString_quoteOnly(str) ==
  LET needQuote == \/ str = << >>
                   \/ Contains2(str, "/", "/")
                   \/ \E i \in 1..Len(str) : str[i] \notin UnquotedChars
      quote == IF needQuote THEN << Quote >> ELSE << >>
  IN quote \o EscapeQuoteOnly(str) \o quote

\* cmXCodeObject::PrintString(os, String)
PrintString(str) ==
  LET needQuote == \/ str = << >>
                   \/ Contains2(str, "/", "/")
                   \/ \E i \in 1..Len(str) : str[i] \notin UnquotedChars
      quote == IF needQuote THEN << Quote >> ELSE << >>
  IN quote \o EscapeAll(str) \o quote

\* HasComment(): the node carries comment text
HasComment(n) == n.Comment # << >>

\* PrintComment(out): the comment, when there is one
PrintComment(n) ==
  IF HasComment(n) THEN << " ", "/", "*", " " >> \o n.Comment \o << " ", "*", "/" >> ELSE << >>

IsaName == << "i", "s", "a" >>
RemoteGlobalIDString == << "r", "e", "m", "o", "t", "e", "G", "l", "o", "b", "a", "l", "I", "D", "S", "t", "r", "i", "n", "g" >>

\* mutant: a non-String element is indented to the list's own level
RECURSIVE PrintListFrom_level(_, _, _, _, _)
PrintListFrom_level(list, i, level, separator, factor) ==
  IF i > Len(list) THEN << >>
  ELSE (IF list[i].TypeValue = STRING_T
        THEN PrintString(list[i].String)
             \o (IF i < Len(list) THEN << "," >> ELSE << >>)
        ELSE Indent(level * factor) \o list[i].Id \o PrintComment(list[i])
             \o << "," >> \o separator)
       \o PrintListFrom_level(list, i + 1, level, separator, factor)

\* the elements of an ObjectList, from index i on (the for loop of the OBJECT_LIST case)
RECURSIVE PrintListFrom(_, _, _, _, _)
PrintListFrom(list, i, level, separator, factor) ==
  IF i > Len(list) THEN << >>
  ELSE (IF list[i].TypeValue = STRING_T
        THEN PrintString(list[i].String)
             \o (IF i < Len(list) THEN << "," >> ELSE << >>)
        ELSE Indent((level + 1) * factor) \o list[i].Id \o PrintComment(list[i])
             \o << "," >> \o separator)
       \o PrintListFrom(list, i + 1, level, separator, factor)

\* cmXCodeObject::PrintAttribute, and its loop over the entries of a group
RECURSIVE PrintAttribute(_, _, _, _, _, _)
RECURSIVE PrintAttributesFrom(_, _, _, _, _, _)

PrintAttribute(level, separator, factor, name, object, parent) ==
  Indent(level * factor) \o
  (CASE object.TypeValue = OBJECT_LIST ->
          name \o << " ", "=", " ", "(" >>
          \o (IF parent.TypeValue # ATTRIBUTE_GROUP THEN separator ELSE << >>)
          \o PrintListFrom(object.List, 1, level, separator, factor)
          \o (IF parent.TypeValue # ATTRIBUTE_GROUP
              THEN Indent(level * factor) ELSE << >>)
          \o << ")", ";" >> \o separator
     [] object.TypeValue = ATTRIBUTE_GROUP ->
          name \o << " ", "=", " ", "{" >>
          \o (IF separator = << NL >> THEN separator ELSE << >>)
          \o PrintAttributesFrom(object.ObjectAttributes, 1, (level + 1) * factor,
                                 separator, factor, object)
          \o Indent(level * factor) \o << "}", ";" >> \o separator
     [] object.TypeValue = OBJECT_REF ->
          PrintString(name) \o << " ", "=", " " >> \o object.Object.Id
          \o (IF HasComment(object.Object) /\ name # RemoteGlobalIDString
              THEN PrintComment(object.Object) ELSE << >>)
          \o << ";" >> \o separator
     [] object.TypeValue = STRING_T ->
          PrintString(name) \o << " ", "=", " " >> \o PrintString(object.String)
          \o << ";" >> \o separator
     [] OTHER -> << >>)

PrintAttributesFrom(attrs, i, level, separator, factor, parent) ==
  IF i > Len(attrs) THEN << >>
  ELSE PrintAttribute(level, separator, factor, attrs[i][1], attrs[i][2], parent)
       \o PrintAttributesFrom(attrs, i + 1, level, separator, factor, parent)

\* the loop of Print over ObjectAttributes: "isa" is skipped, level is 3
RECURSIVE PrintObjectAttributesFrom(_, _, _, _)
PrintObjectAttributesFrom(this, i, separator, indentFactor) ==
  IF i > Len(this.ObjectAttributes) THEN << >>
  ELSE (IF this.ObjectAttributes[i][1] = IsaName THEN << >>
        ELSE PrintAttribute(3, separator, indentFactor, this.ObjectAttributes[i][1],
                            this.ObjectAttributes[i][2], this))
       \o PrintObjectAttributesFrom(this, i + 1, separator, indentFactor)

\* the rest of Print once the layout is chosen (compact: separator " ", factor 0)
PrintBody(this, compact) ==
  LET separator == IF compact THEN << " " >> ELSE << NL >>
      indentFactor == IF compact THEN 0 ELSE 1
  IN Indent(2 * 1)
     \o this.Id \o PrintComment(this) \o << " ", "=", " ", "{" >>
     \o (IF separator = << NL >> THEN separator ELSE << >>)
     \o Indent(3 * indentFactor)
     \o << "i", "s", "a", " ", "=", " " >> \o PBXTypeNames(this.IsA) \o << ";" >> \o separator
     \o PrintObjectAttributesFrom(this, 1, separator, indentFactor)
     \o Indent(2 * indentFactor) \o << "}", ";", NL >>

\* mutant: the version test is >= 15
PrintObject_ge15(this) ==
  PrintBody(this, this.Version >= 15
                  /\ (this.IsA = PBXFileReference \/ this.IsA = PBXBuildFile))

\* cmXCodeObject::Print(out)
PrintObject(this) ==
  PrintBody(this, this.Version > 15
                  /\ (this.IsA = PBXFileReference \/ this.IsA = PBXBuildFile))

----------------------------------------------------------------------------
(* Serializer inputs: nodes as the graph builder leaves them *)

SeqsUpTo(S, n) == UNION { [1..k -> S] : k \in 0..n }

StrNode(str) == [TypeValue |-> STRING_T, String |-> str]
ListNode(list) == [TypeValue |-> OBJECT_LIST, List |-> list]
GroupNode(attrs) == [TypeValue |-> ATTRIBUTE_GROUP, ObjectAttributes |-> attrs]
RefNode(target) == [TypeValue |-> OBJECT_REF, Object |-> target]
ObjNode(id, comment, ptype, version, attrs) ==
  [TypeValue |-> OBJECT, Id |-> id, Comment |-> comment, IsA |-> ptype,
   Version |-> version,
   ObjectAttributes |-> << << IsaName, << >> >> >> \o attrs]

\* two Object nodes to refer to: a sequential id with a comment, a hashed id without
Target1 == ObjNode(SequentialId(1), << "m", "a", "i", "n", ".", "c" >>, PBXFileReference, 15, << >>)
Target2 ==
  ObjNode(NormalizeId(FreshXcodeId(<< 222, 173, 190, 239, 0, 0, 9, 153, 128, 127, 45, 100 >>,
                                   HashPrefix)),
          << >>, PBXGroup, 15, << >>)

Names == { << "f", "i", "l", "e", "R", "e", "f" >>, RemoteGlobalIDString, << "a", " ", "b" >> }
SampleStrings == { << >>, << "a", "/", "b", ".", "c" >>, << "x", " ", Quote, "y", Quote >> }
ListElems == { StrNode(<< "a", "/", "b", ".", "c" >>), StrNode(<< "x", " ", Quote, "y", Quote >>), Target1, Target2 }

Lists == { ListNode(l) : l \in SeqsUpTo(ListElems, MaxList) }
Leaves == { StrNode(str) : str \in SampleStrings } \cup { RefNode(Target1), RefNode(Target2) }
Groups ==
  { GroupNode(<< >>) }
  \cup { GroupNode(<< << n, v >> >>) : n \in Names, v \in Lists \cup Leaves }
  \cup { GroupNode(<< << << "f", "i", "l", "e", "R", "e", "f" >>, StrNode(<< "a", "/", "b", ".", "c" >>) >>,
                      << << "a", " ", "b" >>, GroupNode(<< << << "f", "i", "l", "e", "R", "e", "f" >>, ListNode(<< Target1 >>) >> >>) >> >>) }
AttrValues == Lists \cup Leaves \cup Groups \cup { Target1 }

Layouts == { [separator |-> << NL >>, factor |-> 1], [separator |-> << " " >>, factor |-> 0] }
Versions == { 14, 15, 16 }
SerializedTypes == { PBXGroup, PBXProject, PBXFileReference, PBXBuildFile }

\* the characters of the strings given to PrintString
StringChars == { "A", "z", "7", "$", "_", ".", "/", " ", "-", Quote, Backslash }

PrintObjectInputs ==
  { [op |-> "PrintObject",
     this |-> ObjNode(Target2.Id, c, ptype, v, attrs)] :
      c \in { << >>, << "m", "a", "i", "n", ".", "c" >> }, ptype \in SerializedTypes, v \in Versions,
      attrs \in { << >> } \cup { << << n, val >> >> : n \in Names, val \in AttrValues } }

PrintAttributeInputs ==
  { [op |-> "PrintAttribute", level |-> lvl, separator |-> lay.separator,
     factor |-> lay.factor, name |-> n, object |-> val, parent |-> par] :
      lvl \in 0..MaxLevel, lay \in Layouts, n \in Names, val \in AttrValues,
      par \in { Target1, GroupNode(<< >>) } }

PrintStringInputs ==
  { [op |-> "PrintString", str |-> str] : str \in SeqsUpTo(StringChars, MaxStrLen) }

InitPrint ==
  /\ sequenceIndex = 0
  /\ objectIdCache = << >>
  /\ digest = [k \in Keys |-> CHOOSE d \in DigestSamples : TRUE]
  /\ nodes = << >>
  /\ prevNodes = << >>
  /\ IdleConc
  /\ input \in PrintObjectInputs \cup PrintAttributeInputs \cup PrintStringInputs
  /\ out = << >>
  /\ phase = "ready"

\* this->Print(out) on a finished Object node
DoPrintObject ==
  /\ phase = "ready" /\ input.op = "PrintObject"
  /\ out' = out \o PrintObject(input.this)
  /\ phase' = "done"
  /\ UNCHANGED << idVars, passVars, concVars, input >>

\* PrintAttribute(out, level, separator, factor, name, object, parent)
DoPrintAttribute ==
  /\ phase = "ready" /\ input.op = "PrintAttribute"
  /\ out' = out \o PrintAttribute(input.level, input.separator, input.factor,
                                  input.name, input.object, input.parent)
  /\ phase' = "done"
  /\ UNCHANGED << idVars, passVars, concVars, input >>

\* PrintString(os, String)
DoPrintString ==
  /\ phase = "ready" /\ input.op = "PrintString"
  /\ out' = out \o PrintString(input.str)
  /\ phase' = "done"
  /\ UNCHANGED << idVars, passVars, concVars, input >>

NextPrint == DoPrintObject \/ DoPrintAttribute \/ DoPrintString

SpecPrint == InitPrint /\ [][NextPrint]_vars

----------------------------------------------------------------------------
(* Properties of the serializer.  None of the sample names, strings, ids    *)
(* and comments holds a tab, a newline or a ';', so every such character in *)
(* the output was written by the layout code.                               *)

Printed(op) == phase = "done" /\ input.op = op

\* pattern occurs in text as a contiguous run
Occurs(pattern, text) ==
  \E p \in 0..(Len(text) - Len(pattern)) :
    SubSeq(text, p + 1, p + Len(pattern)) = pattern

CompactSelected(this) ==
  this.Version > 15 /\ this.IsA \in { PBXFileReference, PBXBuildFile }

\* every ';' but the closing one is followed by c
FieldsEndWith(text, c) ==
  \A i \in 1..(Len(text) - 2) : text[i] = ";" => text[i + 1] = c

\* C5 as amended: Print renders the compact layout exactly when Version > 15
\* and the type is PBXFileReference or PBXBuildFile.  Compact: the two leading
\* tabs before the Id are the only tabs, every field ends with one space, the
\* only newline ends the object.  Otherwise expanded: tab indentation (two
\* before the Id, three before isa, two before the closing brace) and a
\* newline after each field.
C5_LayoutSelection ==
  Printed("PrintObject") =>
    /\ SubSeq(out, 1, 2) = << Tab, Tab >>
    /\ out[Len(out)] = NL
    /\ IF CompactSelected(input.this)
       THEN /\ Count(out, Tab) = 2
            /\ Count(out, NL) = 1
            /\ FieldsEndWith(out, " ")
       ELSE /\ Count(out, Tab) >= 7
            /\ Count(out, NL) >= 3
            /\ FieldsEndWith(out, NL)

C5_Witness ==
  /\ Printed("PrintObject")
  /\ input.this.Version = 16 /\ input.this.IsA = PBXBuildFile
  /\ Len(input.this.ObjectAttributes) = 2
  /\ input.this.ObjectAttributes[2][2].TypeValue = OBJECT_REF

\* C5 as claimed: the compact layout holds no tab character at all.
C5_CompactHasNoTabs ==
  Printed("PrintObject") =>
    IF CompactSelected(input.this)
    THEN /\ Count(out, Tab) = 0
         /\ FieldsEndWith(out, " ")
    ELSE /\ Count(out, Tab) >= 7
         /\ FieldsEndWith(out, NL)

NonStrings(list) == { i \in 1..Len(list) : list[i].TypeValue # STRING_T }

\* the run a non-String list element is written as
ElementLine(e, level, separator, factor) ==
  Indent((level + 1) * factor) \o e.Id \o PrintComment(e) \o << "," >> \o separator

\* C6 as amended: under an AttributeGroup parent an ObjectList gets no
\* separator after "(" and no indentation before ")", and its String elements
\* are written with no indentation and no newline; each non-String element is
\* still written as indent, Id, comment, comma, separator.  Under an Object
\* parent in expanded layout each non-String element is written as indent,
\* Id, comment, comma, newline.
C6_NestedListLayout ==
  (Printed("PrintAttribute") /\ input.object.TypeValue = OBJECT_LIST) =>
    LET list == input.object.List
        k == Cardinality(NonStrings(list))
        own == input.level * input.factor
        deeper == (input.level + 1) * input.factor
        expanded == input.separator = << NL >>
    IN /\ input.parent.TypeValue = ATTRIBUTE_GROUP =>
            /\ Count(out, Tab) = own + k * deeper
            /\ Count(out, NL) = IF expanded THEN 1 + k ELSE 0
       /\ input.parent.TypeValue # ATTRIBUTE_GROUP =>
            /\ Count(out, Tab) = 2 * own + k * deeper
            /\ Count(out, NL) = IF expanded THEN 2 + k ELSE 0
       /\ \A i \in NonStrings(list) :
            Occurs(ElementLine(list[i], input.level, input.separator, input.factor), out)

C6_Witness ==
  /\ Printed("PrintAttribute")
  /\ input.object.TypeValue = OBJECT_LIST
  /\ input.parent.TypeValue = ATTRIBUTE_GROUP
  /\ input.separator = << NL >> /\ input.factor = 1 /\ input.level = 2
  /\ Len(input.object.List) = 2
  /\ input.object.List[1].TypeValue = STRING_T
  /\ input.object.List[2].TypeValue = OBJECT

\* C6 as claimed: under an AttributeGroup parent no element, String or not,
\* brings indentation or a newline; under an Object parent in expanded layout
\* each non-String element stands on an indented line of its own.
C6_NestedListFlat ==
  (Printed("PrintAttribute") /\ input.object.TypeValue = OBJECT_LIST) =>
    LET list == input.object.List
        own == input.level * input.factor
        expanded == input.separator = << NL >>
    IN /\ input.parent.TypeValue = ATTRIBUTE_GROUP =>
            /\ Count(out, Tab) = own
            /\ Count(out, NL) = IF expanded THEN 1 ELSE 0
       /\ (input.parent.TypeValue = OBJECT /\ expanded /\ input.factor = 1) =>
            \A i \in NonStrings(list) :
              Occurs(<< NL >> \o ElementLine(list[i], input.level, input.separator,
                                            input.factor), out)

\* what is left of text when each backslash is dropped and the character after it kept
RECURSIVE Unescape(_)
Unescape(text) ==
  IF text = << >> THEN << >>
  ELSE IF Head(text) = Backslash /\ Len(text) >= 2
       THEN << text[2] >> \o Unescape(SubSeq(text, 3, Len(text)))
       ELSE << Head(text) >> \o Unescape(Tail(text))

MustQuote(str) ==
  \/ str = << >>
  \/ Occurs(<< "/", "/" >>, str)
  \/ \E i \in 1..Len(str) : str[i] \notin UnquotedChars

\* C7: PrintString quotes exactly the strings that are empty, hold "//" or
\* hold a character outside A-Z a-z 0-9 $ _ . /; quoted, each '"' and each
\* '\' gets exactly one backslash before it and nothing else changes;
\* unquoted, the output is the input.
C7_QuotingRule ==
  Printed("PrintString") =>
    IF MustQuote(input.str)
    THEN /\ Len(out) = Len(input.str) + 2
                        + Count(input.str, Quote) + Count(input.str, Backslash)
         /\ out[1] = Quote /\ out[Len(out)] = Quote
         /\ Unescape(SubSeq(out, 2, Len(out) - 1)) = input.str
    ELSE out = input.str

C7_Witness ==
  /\ Printed("PrintString")
  /\ input.str = << "A", Backslash, Quote >>
  /\ out = << Quote, "A", Backslash, Backslash, Backslash, Quote, Quote >>

\* C8: PrintAttribute given a value of kind Object writes nothing.
C8_ObjectValueSilent ==
  (Printed("PrintAttribute")
     /\ input.object.TypeValue \notin { OBJECT_LIST, ATTRIBUTE_GROUP, OBJECT_REF, STRING_T })
    => out = << >>

====
